---- MODULE Spec2Model ----
(***************************************************************************)
(* The calculator screen of src/app/(tabs)/index.tsx (HomeScreen) as a     *)
(* state machine: one action per button handler.                           *)
(*                                                                         *)
(* Strings are sequences of one-character strings.  Numbers are exact      *)
(* rationals <<n, d>> in lowest terms with d > 0; d = 0 marks the          *)
(* non-finite values (Infinity = <<1, 0>>, NaN = <<0, 0>>).  The states    *)
(* explored are those whose numbers are dyadic fractions with              *)
(* a denominator in Denominators: on these every IEEE-754 double operation *)
(* of the source is exact, so exact rational arithmetic computes what the  *)
(* program computes.  A power of ten too large for the integers of the     *)
(* model is <<sign, 1, exponent>>; it stands for the double the program    *)
(* holds, which is within a few units in the last place of it: that        *)
(* changes neither the seven digits formatNumber prints nor a comparison   *)
(* with 1e12 or with the largest double.                                   *)
(***************************************************************************)
EXTENDS Integers, Sequences, FiniteSets, TLC

VARIABLES displayValue, waitingForOperand, pendingOperator, storedValue,
          memoryEntries, memoryExpanded, script, pc

session == <<displayValue, waitingForOperand, pendingOperator, storedValue>>
memory == <<memoryEntries, memoryExpanded>>
vars == <<displayValue, waitingForOperand, pendingOperator, storedValue,
          memoryEntries, memoryExpanded, script, pc>>

----------------------------------------------------------------------------
(* Bounds of the exploration *)

\* largest magnitude of a number in a free run of the calculator buttons
MaxAbs == 6
\* longest numeric displayValue in a free run
MaxLen == 5
\* longest memory bank in a free run of the memory buttons
MaxMem == 1
\* largest magnitude of a number in a free run of the memory buttons
MaxMemAbs == 1
\* longest run of digit buttons replayed from a fresh screen
MaxDigits == 3

----------------------------------------------------------------------------
(* Characters and strings *)

DigitChars == <<"0", "1", "2", "3", "4", "5", "6", "7", "8", "9">>
Digits == {DigitChars[i] : i \in 1..10}
DigitVal(c) == (CHOOSE i \in 1..10 : DigitChars[i] = c) - 1

\* Operator = '+' | '-' | '×' | '÷' (written "*" and "/" here)
Operators == {"+", "-", "*", "/"}
NoOperator == "null"
Null == <<>>

DivideByZeroText ==
  <<"C","a","n","n","o","t"," ","d","i","v","i","d","e"," ","b","y"," ","z","e","r","o">>
InvalidInputText ==
  <<"I","n","v","a","l","i","d"," ","i","n","p","u","t">>
\* rendering of a number outside the numbers modelled
UnmodelledText == <<"?">>

Infinity == <<1, 0>>
NaN == <<0, 0>>
\* a finite double that is no modelled rational (an irrational root)
Unmodelled == <<0, -1>>
Zero == <<0, 1>>

Abs(x) == IF x < 0 THEN -x ELSE x

\* F(value), with value evaluated once (TLC evaluates a LET definition anew at
\* each of its uses)
With(value, F(_)) == CHOOSE r \in {F(x) : x \in {value}} : TRUE

RECURSIVE GCD(_, _)
GCD(a, b) == IF b = 0 THEN a ELSE GCD(b, a % b)

Norm(n, d) ==
  With(<<n, d, GCD(Abs(n), Abs(d))>>,
       LAMBDA t : IF t[2] < 0 THEN <<(-t[1]) \div t[3], (-t[2]) \div t[3]>>
                  ELSE <<t[1] \div t[3], t[2] \div t[3]>>)

IsFinite(v) == v[2] # 0
Whole(k) == <<k, 1>>

RECURSIVE Pow(_, _)
Pow(b, k) == IF k = 0 THEN 1 ELSE b * Pow(b, k - 1)

\* the largest double is 1.797e308: 10^308 is a double, 10^309 overflows
MaxExponent == 308

Big(sign, exponent) == <<sign, 1, exponent>>
IsBig(v) == Len(v) = 3
IsPowerOfTen(v) ==
  IsBig(v) \/ (v[2] = 1 /\ \E k \in 0..9 : Abs(v[1]) = Pow(10, k))
ExponentOf(v) ==
  IF IsBig(v) THEN v[3] ELSE CHOOSE k \in 0..9 : Abs(v[1]) = Pow(10, k)
SignOf(v) == IF v[1] < 0 THEN -1 ELSE 1
\* the double sign * 10^exponent
PowerOfTen(sign, exponent) ==
  IF exponent > MaxExponent THEN Infinity
  ELSE IF exponent > 9 THEN Big(sign, exponent)
  ELSE IF exponent >= 0 THEN <<sign * Pow(10, exponent), 1>>
  ELSE IF exponent >= -9 THEN <<sign, Pow(10, -exponent)>>
  ELSE Unmodelled

Neg(a) == IF IsBig(a) THEN Big(-a[1], a[3]) ELSE <<-a[1], a[2]>>
Add(a, b) ==
  IF IsBig(a) \/ IsBig(b) THEN
    IF b = Zero THEN a
    ELSE IF a = Zero THEN b
    ELSE IF a = Neg(b) THEN Zero
    ELSE Unmodelled
  ELSE Norm(a[1] * b[2] + b[1] * a[2], a[2] * b[2])
Sub(a, b) == Add(a, Neg(b))
Mul(a, b) ==
  IF IsPowerOfTen(a) /\ IsPowerOfTen(b)
  THEN PowerOfTen(SignOf(a) * SignOf(b), ExponentOf(a) + ExponentOf(b))
  ELSE IF IsBig(a) \/ IsBig(b)
  THEN IF a = Zero \/ b = Zero THEN Zero ELSE Unmodelled
  ELSE Norm(a[1] * b[1], a[2] * b[2])
\* a / b for b # 0
Div(a, b) ==
  IF IsPowerOfTen(a) /\ IsPowerOfTen(b)
  THEN PowerOfTen(SignOf(a) * SignOf(b), ExponentOf(a) - ExponentOf(b))
  ELSE IF IsBig(a) \/ IsBig(b)
  THEN IF a = Zero THEN Zero ELSE Unmodelled
  ELSE Norm(a[1] * b[2], a[2] * b[1])
Less(a, b) ==
  IF IsBig(a) /\ IsBig(b)
  THEN a[1] < b[1] \/ (a[1] = b[1] /\ a[1] * a[3] < b[1] * b[3])
  ELSE IF IsBig(a) THEN a[1] < 0
  ELSE IF IsBig(b) THEN b[1] > 0
  ELSE a[1] * b[2] < b[1] * a[2]

ISqrt(n) == CHOOSE r \in 0..n : r * r <= n /\ (r + 1) * (r + 1) > n
\* Math.sqrt of a non-negative finite number
Sqrt(a) ==
  IF IsBig(a)
  THEN IF a[3] % 2 = 0 THEN PowerOfTen(1, a[3] \div 2) ELSE Unmodelled
  ELSE
    LET rn == ISqrt(a[1])
        rd == ISqrt(a[2])
    IN IF rn * rn = a[1] /\ rd * rd = a[2] THEN <<rn, rd>> ELSE Unmodelled

StripCommas(s) == SelectSeq(s, LAMBDA c : c # ",")
AllDigits(s) == \A i \in 1..Len(s) : s[i] \in Digits
Contains(s, c) == \E i \in 1..Len(s) : s[i] = c
DropSign(s) == IF Len(s) > 0 /\ s[1] = "-" THEN Tail(s) ELSE s
DotAt(s) == CHOOSE i \in 1..Len(s) : s[i] = "."
DotCount(s) == Cardinality({i \in 1..Len(s) : s[i] = "."})

\* the number a sequence of digits writes
IntOf(s) ==
  LET upTo[i \in 0..Len(s)] ==
        IF i = 0 THEN 0 ELSE 10 * upTo[i - 1] + DigitVal(s[i])
  IN upTo[Len(s)]

RECURSIVE DigitsOf(_)
DigitsOf(k) ==
  IF k < 10 THEN <<DigitChars[k + 1]>>
  ELSE DigitsOf(k \div 10) \o <<DigitChars[(k % 10) + 1]>>

----------------------------------------------------------------------------
(* parseDisplayValue, isNumericEntry, formatNumber *)

\* toExponential(6) of a power of ten, without its sign: "1.000000e"
ExponentialPrefix == <<"1", ".", "0", "0", "0", "0", "0", "0", "e">>
IsExponential(u) ==
  /\ Len(u) > Len(ExponentialPrefix)
  /\ SubSeq(u, 1, Len(ExponentialPrefix)) = ExponentialPrefix
  /\ AllDigits(SubSeq(u, Len(ExponentialPrefix) + 1, Len(u)))

\* Number(text) for the texts the calculator holds: an optional minus sign,
\* digits with an optional point ("1." and ".5" are numbers) or the
\* exponential notation of a power of ten, the empty string is 0, anything
\* else NaN
Number(s) ==
  With(DropSign(s), LAMBDA u :
    IF Len(s) = 0 THEN Zero
    ELSE IF IsExponential(u) THEN
      PowerOfTen(IF Len(u) = Len(s) THEN 1 ELSE -1,
                 IntOf(SubSeq(u, Len(ExponentialPrefix) + 1, Len(u))))
    ELSE IF DotCount(u) = 0 THEN
      IF Len(u) > 0 /\ AllDigits(u)
      THEN <<(IF Len(u) = Len(s) THEN 1 ELSE -1) * IntOf(u), 1>>
      ELSE NaN
    ELSE IF DotCount(u) = 1 /\ Len(u) > 1 THEN
      With(<<SubSeq(u, 1, DotAt(u) - 1), SubSeq(u, DotAt(u) + 1, Len(u))>>,
           LAMBDA parts :
             IF AllDigits(parts[1]) /\ AllDigits(parts[2])
             THEN Norm((IF Len(u) = Len(s) THEN 1 ELSE -1)
                         * (IntOf(parts[1]) * Pow(10, Len(parts[2])) + IntOf(parts[2])),
                       Pow(10, Len(parts[2])))
             ELSE NaN)
    ELSE NaN)

parseDisplayValue(text) ==
  IF text = DivideByZeroText THEN NaN
  ELSE With(StripCommas(text), LAMBDA stripped : Number(stripped))

\* /^-?\d+(\.\d+)?$/ on the text without its commas
isNumericEntry(value) ==
  \E u \in {DropSign(StripCommas(value))} :
    IF DotCount(u) = 0 THEN Len(u) > 0 /\ AllDigits(u)
    ELSE /\ DotCount(u) = 1
         /\ DotAt(u) > 1
         /\ DotAt(u) < Len(u)
         /\ AllDigits(SubSeq(u, 1, DotAt(u) - 1))
         /\ AllDigits(SubSeq(u, DotAt(u) + 1, Len(u)))

\* toLocaleString('en-US') of a non-negative integer's digits: groups of three
RECURSIVE Group(_)
Group(ds) ==
  IF Len(ds) <= 3 THEN ds
  ELSE Group(SubSeq(ds, 1, Len(ds) - 3)) \o <<",">> \o SubSeq(ds, Len(ds) - 2, Len(ds))

\* 17 significant digits are the most Number.prototype.toString prints
MaxSignificant == 17

RECURSIVE StripFactor(_, _, _)
StripFactor(d, p, k) ==
  IF k = 0 \/ d % p # 0 THEN d ELSE StripFactor(d \div p, p, k - 1)

\* a fraction of denominator d has at most k decimals
Terminates(d, k) == StripFactor(StripFactor(d, 2, k), 5, k) = 1

\* the digits after the point of r/d (r < d), a terminating fraction
RECURSIVE FracDigits(_, _)
FracDigits(r, d) ==
  IF r = 0 THEN <<>>
  ELSE <<DigitChars[((r * 10) \div d) + 1]>> \o FracDigits((r * 10) % d, d)

\* 1e12 and 1e-9 of formatNumber, as powers of ten
ExpUpper == 12
ExpLower == 9

\* absValue >= 1e12 || absValue < 1e-9, for |value| = a/d, a > 0
UsesExponent(a, d) ==
  \/ Len(DigitsOf(a \div d)) > ExpUpper
  \/ Len(DigitsOf(d \div a)) > ExpLower + 1
  \/ (d \div a = Pow(10, ExpLower) /\ d % a > 0)

\* Number.prototype.toString writes a magnitude a/d below 1e-6 with an
\* exponent, and formatNumber passes it on ("2.5e-7")
ToStringUsesExponent(a, d) == a <= (d - 1) \div Pow(10, 6)

formatNumber(value) ==
  IF ~IsFinite(value) THEN DivideByZeroText
  ELSE IF value = Unmodelled THEN UnmodelledText
  ELSE IF IsBig(value) THEN
    (IF value[1] < 0 THEN <<"-">> ELSE <<>>)
      \o (IF value[3] >= ExpUpper
          THEN ExponentialPrefix \o DigitsOf(value[3])
          ELSE Group(<<"1">> \o [i \in 1..value[3] |-> "0"]))
  ELSE
    LET a == Abs(value[1])
        d == value[2]
        decimalPart == FracDigits(a % d, d)
        formattedInteger ==
          (IF value[1] < 0 THEN <<"-">> ELSE <<>>) \o Group(DigitsOf(a \div d))
    IN IF a # 0 /\ UsesExponent(a, d) THEN UnmodelledText
       ELSE IF a # 0 /\ ToStringUsesExponent(a, d) THEN UnmodelledText
       ELSE IF ~Terminates(d, MaxSignificant) THEN UnmodelledText
       ELSE IF decimalPart = <<>> THEN formattedInteger
       ELSE formattedInteger \o <<".">> \o decimalPart

----------------------------------------------------------------------------
(* The buttons, and the button sequences replayed from a fresh screen *)

\* '±' | '1/x' | 'x²' | '√x'
UnaryCommands == {"+/-", "1/x", "x^2", "sqrt"}
MemoryActions == {"MC", "MR", "M+", "M-", "MS", "Mv"}

\* a free run presses any of the calculator buttons below, in any order
FreeRun == <<>>
FreeButtons ==
  {"0", "1", "2", "5"} \cup Operators \cup UnaryCommands
    \cup {".", "=", "%", "CE", "C", "BS"}
\* a free run of the memory buttons, with a few calculator buttons
MemoryRun == <<"MS">>
MemoryButtons == MemoryActions \cup {"0", "1", "+", "=", "+/-", "sqrt", "CE"}
\* the identities createMemoryEntry draws from
Ids == {"a", "b"}

ScriptDecimalTwice == <<"1", ".", ".", "2">>
ScriptDecimalDigit == <<"1", ".", "5">>
ScriptRepeatEquals == <<"2", "+", "3", "=", "=">>
ScriptTenths == <<"0", ".", "1", "+", "0", ".", "2", "=">>
ScriptDivideByZero == <<"5", "/", "0", "=", "+", "1">>
ScriptSwitchOperator == <<"5", "+", "*", "3", "=">>
ScriptPercent == <<"2", "0", "0", "+", "1", "0", "%", "=">>
ScriptThousand == <<"5", "0", "0", "*", "2", "=", "+/-", "7", "BS", "BS">>
ScriptPercentAlone == <<"5", "0", "%", "+/-", "%">>
\* 1e256 * 1e64 is no double
ScriptPercentOverflow ==
  <<"1", "0", "x^2", "x^2", "x^2", "x^2", "x^2", "x^2", "x^2", "x^2", "*",
    "1", "0", "x^2", "x^2", "x^2", "x^2", "x^2", "x^2", "%">>
\* 1e256 * 1e48 is a double, its product with 1e12 is not
ScriptOverflow ==
  <<"1", "0", "x^2", "x^2", "x^2", "x^2", "x^2", "x^2", "x^2", "x^2", "*",
    "1", "0", "0", "0", "x^2", "x^2", "x^2", "x^2", "=", "+", "CE">>

ScriptNegativeRoot == <<"4", "+/-", "sqrt">>
ScriptNegativeRootInChain == <<"2", "+", "4", "+/-", "sqrt">>

ScriptMemoryBank ==
  <<"1", "MS", "CE", "2", "MS", "CE", "5", "M+", "M-", "M-", "MR", "1", "MC">>
ScriptMemorySubtract == <<"5", "M-", "M+", "M+", "MR">>

ScriptStoreRecall == <<"5", "MS", "MR", "2", "MS", "MR">>
\* 1e256 * 1e48 is a double, its product with 1e12 is not
ScriptStoreRecallOverflow ==
  <<"1", "0", "x^2", "x^2", "x^2", "x^2", "x^2", "x^2", "x^2", "x^2", "*",
    "1", "0", "0", "0", "x^2", "x^2", "x^2", "x^2", "+", "MS", "MR">>

ScriptRecallAdds == <<"5", "MS", "C", "2", "+", "MR", "=">>
ScriptRecallAddsOverflow ==
  <<"1", "0", "x^2", "x^2", "x^2", "x^2", "x^2", "x^2", "x^2", "x^2", "*",
    "1", "0", "0", "0", "x^2", "x^2", "x^2", "x^2", "+", "MS",
    "C", "2", "+", "MR", "=">>

ScriptClearEntry == <<"2", "+", "3", "CE", "4", "=">>
ScriptClearAll == <<"2", "+", "3", "C">>

ScriptBackspaceDot == <<"1", "2", ".", "BS">>
ScriptBackspaceSign == <<"5", "+/-", "BS">>

ScriptTypedPoint == <<"1", "2", "3", "4", ".">>

ScriptDivideByZeroChained == <<"5", "+/-", "/", "0", "+">>

\* 1e256 squared is no double
ScriptSquareOverflow ==
  <<"1", "0", "x^2", "x^2", "x^2", "x^2", "x^2", "x^2", "x^2", "x^2", "x^2">>
ScriptLeftToRight == <<"2", "+", "3", "*", "4", "=">>

ScriptMemoryInError == <<"5", "/", "0", "=", "M+", "MS", "M-", "1", "M+">>

ScriptNegateDigit == <<"5", "+/-", "3">>
\* the square of a million is shown with an exponent
ScriptSquareExponent == <<"1", "0", "0", "0", "0", "0", "0", "x^2", "3">>

ScriptEqualsThenEquals == <<"2", "+", "3", "=", "4", "=">>
ScriptEqualsThenOperator == <<"2", "+", "3", "=", "4", "*">>

\* every run of one to MaxDigits of these digit buttons
DigitAlphabet == {"0", "1", "5", "9"}
RECURSIVE DigitRuns(_)
DigitRuns(n) ==
  IF n = 0 THEN {<<>>}
  ELSE DigitRuns(n - 1)
         \cup {Append(run, digit) : run \in DigitRuns(n - 1), digit \in DigitAlphabet}
DigitScripts == DigitRuns(MaxDigits) \ {<<>>}

NamedScripts ==
  { FreeRun, MemoryRun, ScriptDecimalTwice, ScriptDecimalDigit, ScriptRepeatEquals,
    ScriptTenths, ScriptDivideByZero, ScriptSwitchOperator, ScriptPercent,
    ScriptThousand, ScriptPercentAlone, ScriptPercentOverflow, ScriptOverflow,
    ScriptNegativeRoot, ScriptNegativeRootInChain,
    ScriptMemoryBank, ScriptMemorySubtract,
    ScriptStoreRecall, ScriptStoreRecallOverflow,
    ScriptRecallAdds, ScriptRecallAddsOverflow,
    ScriptClearEntry, ScriptClearAll,
    ScriptBackspaceDot, ScriptBackspaceSign,
    ScriptTypedPoint, ScriptDivideByZeroChained, ScriptSquareOverflow,
    ScriptLeftToRight, ScriptMemoryInError, ScriptNegateDigit,
    ScriptSquareExponent, ScriptEqualsThenEquals, ScriptEqualsThenOperator }

Scripts == NamedScripts \cup DigitScripts

----------------------------------------------------------------------------
(* The numbers explored *)

\* halves, quarters and eighths
Denominators == {1, 2, 4, 8}
Dyadic(v) == v[2] \in Denominators
AbsLeq(v, k) == ~IsBig(v) /\ Abs(v[1]) <= k * v[2]
IsErrorText(text) == text \in {DivideByZeroText, InvalidInputText}

\* every number of the state is one the model computes exactly
Modelled ==
  /\ displayValue # UnmodelledText
  /\ \E shown \in {parseDisplayValue(displayValue)} :
       IsFinite(shown) => Dyadic(shown)
  /\ storedValue = Null \/ Dyadic(storedValue)
  /\ \A i \in 1..Len(memoryEntries) : Dyadic(memoryEntries[i].value)

\* the part of the state space a free run explores
InRange(limit) ==
  /\ \/ IsErrorText(displayValue)
     \/ /\ Len(displayValue) <= MaxLen
        /\ \E shown \in {parseDisplayValue(displayValue)} :
             IsFinite(shown) => AbsLeq(shown, limit)
  /\ storedValue = Null \/ AbsLeq(storedValue, limit)
  /\ Len(memoryEntries) <= MaxMem
  /\ \A i \in 1..Len(memoryEntries) : AbsLeq(memoryEntries[i].value, limit)

Bounded ==
  /\ Modelled
  /\ script = FreeRun => InRange(MaxAbs)
  /\ script = MemoryRun => InRange(MaxMemAbs)

----------------------------------------------------------------------------
(* HomeScreen *)

Init ==
  /\ displayValue = <<"0">>
  /\ waitingForOperand = FALSE
  /\ pendingOperator = NoOperator
  /\ storedValue = Null
  /\ memoryEntries = <<>>
  /\ memoryExpanded = FALSE
  /\ script \in Scripts
  /\ pc = 0

\* createMemoryEntry with a slip: the value is left out
createMemoryEntryOfZero(value, id) == [id |-> id, value |-> Zero]

createMemoryEntry(value, id) == [id |-> id, value |-> value]

\* handleDigitPress with a slip: a digit is appended to "0" too
handleDigitPressKeepingZero(digit) ==
  /\ displayValue' =
       IF ~isNumericEntry(displayValue) \/ waitingForOperand THEN <<digit>>
       ELSE Append(displayValue, digit)
  /\ waitingForOperand' =
       IF ~isNumericEntry(displayValue) \/ waitingForOperand THEN FALSE
       ELSE waitingForOperand
  /\ UNCHANGED <<pendingOperator, storedValue, memoryEntries, memoryExpanded>>

handleDigitPress(digit) ==
  /\ displayValue' =
       IF ~isNumericEntry(displayValue) \/ waitingForOperand THEN <<digit>>
       ELSE IF displayValue = <<"0">> THEN <<digit>>
       ELSE Append(displayValue, digit)
  /\ waitingForOperand' =
       IF ~isNumericEntry(displayValue) \/ waitingForOperand THEN FALSE
       ELSE waitingForOperand
  /\ UNCHANGED <<pendingOperator, storedValue, memoryEntries, memoryExpanded>>

handleDecimalPress ==
  /\ displayValue' =
       IF ~isNumericEntry(displayValue) THEN <<"0", ".">>
       ELSE IF waitingForOperand THEN <<"0", ".">>
       ELSE IF Contains(displayValue, ".") THEN displayValue
       ELSE Append(displayValue, ".")
  /\ waitingForOperand' =
       IF ~isNumericEntry(displayValue) THEN FALSE
       ELSE IF waitingForOperand THEN FALSE
       ELSE waitingForOperand
  /\ UNCHANGED <<pendingOperator, storedValue, memoryEntries, memoryExpanded>>

performOperation(operator, left, right) ==
  CASE operator = "+" -> Add(left, right)
    [] operator = "-" -> Sub(left, right)
    [] operator = "*" -> Mul(left, right)
    [] operator = "/" -> IF right = Zero THEN Infinity ELSE Div(left, right)
    [] OTHER -> right

\* 1e12 of commitValue, as a power of ten
RoundPlaces == 12

\* Math.round((value + Number.EPSILON) * 1e12) / 1e12: the product overflows
\* to an infinity from 1e297 on; a value of at most twelve decimals is its own
\* rounding; the rounding of any other value has more digits than the model's
\* integers hold
roundedValue(value) ==
  IF IsBig(value)
  THEN IF value[3] + RoundPlaces > MaxExponent THEN Infinity ELSE value
  ELSE IF value # Unmodelled /\ Terminates(value[2], RoundPlaces)
  THEN value
  ELSE Unmodelled

\* commitValue with a slip: the non-finite branch keeps the pending operator
commitValueKeepingOperator(value) ==
  IF ~IsFinite(value)
  THEN [displayValue |-> DivideByZeroText,
        storedValue |-> Null,
        pendingOperator |-> pendingOperator,
        waitingForOperand |-> FALSE]
  ELSE [displayValue |-> With(roundedValue(value), LAMBDA rounded : formatNumber(rounded)),
        storedValue |-> storedValue,
        pendingOperator |-> pendingOperator,
        waitingForOperand |-> waitingForOperand]

\* the session commitValue(value) leaves, as a record of the four states it sets
commitValue(value) ==
  IF ~IsFinite(value)
  THEN [displayValue |-> DivideByZeroText,
        storedValue |-> Null,
        pendingOperator |-> NoOperator,
        waitingForOperand |-> FALSE]
  ELSE [displayValue |-> With(roundedValue(value), LAMBDA rounded : formatNumber(rounded)),
        storedValue |-> storedValue,
        pendingOperator |-> pendingOperator,
        waitingForOperand |-> waitingForOperand]

\* handleOperatorPress with a slip: the pending operation is computed whether
\* or not a right operand was typed
handleOperatorPressRecomputing(operator) ==
  /\ \E currentValue \in {parseDisplayValue(displayValue)} :
       IF ~IsFinite(currentValue) THEN
         UNCHANGED <<displayValue, storedValue, pendingOperator, waitingForOperand>>
       ELSE IF storedValue = Null \/ pendingOperator = NoOperator THEN
         /\ storedValue' = currentValue
         /\ pendingOperator' = operator
         /\ waitingForOperand' = TRUE
         /\ UNCHANGED displayValue
       ELSE
         \E computed \in {performOperation(pendingOperator, storedValue, currentValue)} :
           IF ~IsFinite(computed) THEN
             \E committed \in {commitValue(computed)} :
               /\ displayValue' = committed.displayValue
               /\ storedValue' = committed.storedValue
               /\ pendingOperator' = committed.pendingOperator
               /\ waitingForOperand' = committed.waitingForOperand
           ELSE
             /\ storedValue' = computed
             /\ displayValue' = formatNumber(computed)
             /\ pendingOperator' = operator
             /\ waitingForOperand' = TRUE
  /\ UNCHANGED <<memoryEntries, memoryExpanded>>

\* handleOperatorPress with a slip: the pressed operator is pending behind an
\* error
handleOperatorPressKeepingOperator(operator) ==
  /\ \E currentValue \in {parseDisplayValue(displayValue)} :
       IF ~IsFinite(currentValue) THEN
         UNCHANGED <<displayValue, storedValue, pendingOperator, waitingForOperand>>
       ELSE IF storedValue = Null \/ pendingOperator = NoOperator THEN
         /\ storedValue' = currentValue
         /\ pendingOperator' = operator
         /\ waitingForOperand' = TRUE
         /\ UNCHANGED displayValue
       ELSE IF ~waitingForOperand THEN
         \E computed \in {performOperation(pendingOperator, storedValue, currentValue)} :
           IF ~IsFinite(computed) THEN
             \E committed \in {commitValue(computed)} :
               /\ displayValue' = committed.displayValue
               /\ storedValue' = committed.storedValue
               /\ pendingOperator' = operator
               /\ waitingForOperand' = TRUE
           ELSE
             /\ storedValue' = computed
             /\ displayValue' = formatNumber(computed)
             /\ pendingOperator' = operator
             /\ waitingForOperand' = TRUE
       ELSE
         /\ pendingOperator' = operator
         /\ waitingForOperand' = TRUE
         /\ UNCHANGED <<displayValue, storedValue>>
  /\ UNCHANGED <<memoryEntries, memoryExpanded>>

\* handleOperatorPress with a slip: the computed value is shown and not stored
handleOperatorPressKeepingStored(operator) ==
  /\ \E currentValue \in {parseDisplayValue(displayValue)} :
       IF ~IsFinite(currentValue) THEN
         UNCHANGED <<displayValue, storedValue, pendingOperator, waitingForOperand>>
       ELSE IF storedValue = Null \/ pendingOperator = NoOperator THEN
         /\ storedValue' = currentValue
         /\ pendingOperator' = operator
         /\ waitingForOperand' = TRUE
         /\ UNCHANGED displayValue
       ELSE IF ~waitingForOperand THEN
         \E computed \in {performOperation(pendingOperator, storedValue, currentValue)} :
           IF ~IsFinite(computed) THEN
             \E committed \in {commitValue(computed)} :
               /\ displayValue' = committed.displayValue
               /\ storedValue' = committed.storedValue
               /\ pendingOperator' = committed.pendingOperator
               /\ waitingForOperand' = committed.waitingForOperand
           ELSE
             /\ storedValue' = storedValue
             /\ displayValue' = formatNumber(computed)
             /\ pendingOperator' = operator
             /\ waitingForOperand' = TRUE
       ELSE
         /\ pendingOperator' = operator
         /\ waitingForOperand' = TRUE
         /\ UNCHANGED <<displayValue, storedValue>>
  /\ UNCHANGED <<memoryEntries, memoryExpanded>>

handleOperatorPress(operator) ==
  /\ \E currentValue \in {parseDisplayValue(displayValue)} :
       IF ~IsFinite(currentValue) THEN
         UNCHANGED <<displayValue, storedValue, pendingOperator, waitingForOperand>>
       ELSE IF storedValue = Null \/ pendingOperator = NoOperator THEN
         /\ storedValue' = currentValue
         /\ pendingOperator' = operator
         /\ waitingForOperand' = TRUE
         /\ UNCHANGED displayValue
       ELSE IF ~waitingForOperand THEN
         \E computed \in {performOperation(pendingOperator, storedValue, currentValue)} :
           IF ~IsFinite(computed) THEN
             \E committed \in {commitValue(computed)} :
               /\ displayValue' = committed.displayValue
               /\ storedValue' = committed.storedValue
               /\ pendingOperator' = committed.pendingOperator
               /\ waitingForOperand' = committed.waitingForOperand
           ELSE
             /\ storedValue' = computed
             /\ displayValue' = formatNumber(computed)
             /\ pendingOperator' = operator
             /\ waitingForOperand' = TRUE
       ELSE
         /\ pendingOperator' = operator
         /\ waitingForOperand' = TRUE
         /\ UNCHANGED <<displayValue, storedValue>>
  /\ UNCHANGED <<memoryEntries, memoryExpanded>>

\* handleEqualsPress with a slip: a finite result closes the chain
handleEqualsPressClosingChain ==
  /\ IF pendingOperator = NoOperator \/ storedValue = Null THEN
       UNCHANGED <<displayValue, storedValue, pendingOperator, waitingForOperand>>
     ELSE
       \E currentValue \in {parseDisplayValue(displayValue)} :
         IF ~IsFinite(currentValue) THEN
           UNCHANGED <<displayValue, storedValue, pendingOperator, waitingForOperand>>
         ELSE
           \E result \in {performOperation(pendingOperator, storedValue, currentValue)} :
             \E committed \in {commitValue(result)} :
               /\ displayValue' = committed.displayValue
               /\ storedValue' = Null
               /\ pendingOperator' = NoOperator
               /\ waitingForOperand' = TRUE
  /\ UNCHANGED <<memoryEntries, memoryExpanded>>

handleEqualsPress ==
  /\ IF pendingOperator = NoOperator \/ storedValue = Null THEN
       UNCHANGED <<displayValue, storedValue, pendingOperator, waitingForOperand>>
     ELSE
       \E currentValue \in {parseDisplayValue(displayValue)} :
         IF ~IsFinite(currentValue) THEN
           UNCHANGED <<displayValue, storedValue, pendingOperator, waitingForOperand>>
         ELSE
           \E result \in {performOperation(pendingOperator, storedValue, currentValue)} :
             \E committed \in {commitValue(result)} :
               /\ displayValue' = committed.displayValue
               /\ storedValue' = IF IsFinite(result) THEN result ELSE committed.storedValue
               /\ pendingOperator' = committed.pendingOperator
               /\ waitingForOperand' = TRUE
  /\ UNCHANGED <<memoryEntries, memoryExpanded>>

\* value || 0 with a slip: 1 stands in for a value that is no number
OrOne(v) == IF v = NaN THEN Whole(1) ELSE v

\* value || 0
OrZero(v) == IF v = NaN \/ v = Zero THEN Zero ELSE v

\* handlePercent with a slip: an entry that is no number counts as 0
handlePercentOrZero ==
  /\ \E currentValue \in {OrZero(parseDisplayValue(displayValue))} :
       \E percentage \in
            {IF storedValue # Null /\ pendingOperator # NoOperator
             THEN Div(Mul(storedValue, currentValue), Whole(100))
             ELSE Div(currentValue, Whole(100))} :
         \E committed \in {commitValue(percentage)} :
           /\ displayValue' = committed.displayValue
           /\ storedValue' = committed.storedValue
           /\ pendingOperator' = committed.pendingOperator
           /\ waitingForOperand' = TRUE
  /\ UNCHANGED <<memoryEntries, memoryExpanded>>

\* handlePercent with a slip: the stored operand is left out
handlePercentOfEntryOnly ==
  /\ \E currentValue \in {parseDisplayValue(displayValue)} :
       IF ~IsFinite(currentValue) THEN
         UNCHANGED <<displayValue, storedValue, pendingOperator, waitingForOperand>>
       ELSE
         \E committed \in {commitValue(Div(currentValue, Whole(100)))} :
           /\ displayValue' = committed.displayValue
           /\ storedValue' = committed.storedValue
           /\ pendingOperator' = committed.pendingOperator
           /\ waitingForOperand' = TRUE
  /\ UNCHANGED <<memoryEntries, memoryExpanded>>

handlePercent ==
  /\ \E currentValue \in {parseDisplayValue(displayValue)} :
       IF ~IsFinite(currentValue) THEN
         UNCHANGED <<displayValue, storedValue, pendingOperator, waitingForOperand>>
       ELSE
         \E percentage \in
              {IF storedValue # Null /\ pendingOperator # NoOperator
               THEN Div(Mul(storedValue, currentValue), Whole(100))
               ELSE Div(currentValue, Whole(100))} :
           \E committed \in {commitValue(percentage)} :
             /\ displayValue' = committed.displayValue
             /\ storedValue' = committed.storedValue
             /\ pendingOperator' = committed.pendingOperator
             /\ waitingForOperand' = TRUE
  /\ UNCHANGED <<memoryEntries, memoryExpanded>>

\* handleUnaryCommand with a slip: the root of a negative number is committed
\* like any other result, and Math.sqrt gives NaN
handleUnaryCommandRootOfNegative(command) ==
  /\ \E currentValue \in {parseDisplayValue(displayValue)} :
       IF ~IsFinite(currentValue) THEN
         UNCHANGED <<displayValue, storedValue, pendingOperator, waitingForOperand>>
       ELSE
         \E operand \in
              {CASE command = "+/-" -> Neg(currentValue)
                 [] command = "1/x" ->
                      IF currentValue = Zero THEN Infinity
                      ELSE Div(Whole(1), currentValue)
                 [] command = "x^2" -> Mul(currentValue, currentValue)
                 [] command = "sqrt" ->
                      IF Less(currentValue, Zero) THEN NaN
                      ELSE Sqrt(currentValue)} :
           \E committed \in {commitValue(operand)} :
             /\ displayValue' = committed.displayValue
             /\ storedValue' = committed.storedValue
             /\ pendingOperator' = committed.pendingOperator
             /\ waitingForOperand' = committed.waitingForOperand
  /\ UNCHANGED <<memoryEntries, memoryExpanded>>

\* handleUnaryCommand with a slip: a committed result waits for an operand
handleUnaryCommandWaiting(command) ==
  /\ \E currentValue \in {parseDisplayValue(displayValue)} :
       IF ~IsFinite(currentValue) THEN
         UNCHANGED <<displayValue, storedValue, pendingOperator, waitingForOperand>>
       ELSE IF command = "sqrt" /\ Less(currentValue, Zero) THEN
         /\ displayValue' = InvalidInputText
         /\ storedValue' = Null
         /\ pendingOperator' = NoOperator
         /\ waitingForOperand' = FALSE
       ELSE
         \E operand \in
              {CASE command = "+/-" -> Neg(currentValue)
                 [] command = "1/x" ->
                      IF currentValue = Zero THEN Infinity
                      ELSE Div(Whole(1), currentValue)
                 [] command = "x^2" -> Mul(currentValue, currentValue)
                 [] command = "sqrt" -> Sqrt(currentValue)} :
           \E committed \in {commitValue(operand)} :
             /\ displayValue' = committed.displayValue
             /\ storedValue' = committed.storedValue
             /\ pendingOperator' = committed.pendingOperator
             /\ waitingForOperand' = TRUE
  /\ UNCHANGED <<memoryEntries, memoryExpanded>>

handleUnaryCommand(command) ==
  /\ \E currentValue \in {parseDisplayValue(displayValue)} :
       IF ~IsFinite(currentValue) THEN
         UNCHANGED <<displayValue, storedValue, pendingOperator, waitingForOperand>>
       ELSE IF command = "sqrt" /\ Less(currentValue, Zero) THEN
         /\ displayValue' = InvalidInputText
         /\ storedValue' = Null
         /\ pendingOperator' = NoOperator
         /\ waitingForOperand' = FALSE
       ELSE
         \E operand \in
              {CASE command = "+/-" -> Neg(currentValue)
                 [] command = "1/x" ->
                      IF currentValue = Zero THEN Infinity
                      ELSE Div(Whole(1), currentValue)
                 [] command = "x^2" -> Mul(currentValue, currentValue)
                 [] command = "sqrt" -> Sqrt(currentValue)} :
           \E committed \in {commitValue(operand)} :
             /\ displayValue' = committed.displayValue
             /\ storedValue' = committed.storedValue
             /\ pendingOperator' = committed.pendingOperator
             /\ waitingForOperand' = committed.waitingForOperand
  /\ UNCHANGED <<memoryEntries, memoryExpanded>>

\* handleClearEntry with a slip: the chain is cleared with the entry
handleClearEntryClearingChain ==
  /\ displayValue' = <<"0">>
  /\ waitingForOperand' = TRUE
  /\ storedValue' = Null
  /\ pendingOperator' = NoOperator
  /\ UNCHANGED <<memoryEntries, memoryExpanded>>

handleClearEntry ==
  /\ displayValue' = <<"0">>
  /\ waitingForOperand' = TRUE
  /\ UNCHANGED <<storedValue, pendingOperator, memoryEntries, memoryExpanded>>

\* handleClearAll with a slip: the memory is emptied too
handleClearAllClearingMemory ==
  /\ displayValue' = <<"0">>
  /\ storedValue' = Null
  /\ pendingOperator' = NoOperator
  /\ waitingForOperand' = FALSE
  /\ memoryEntries' = <<>>
  /\ UNCHANGED memoryExpanded

\* handleClearAll with a slip: the pending operator survives
handleClearAllKeepingOperator ==
  /\ displayValue' = <<"0">>
  /\ storedValue' = Null
  /\ waitingForOperand' = FALSE
  /\ UNCHANGED <<pendingOperator, memoryEntries, memoryExpanded>>

handleClearAll ==
  /\ displayValue' = <<"0">>
  /\ storedValue' = Null
  /\ pendingOperator' = NoOperator
  /\ waitingForOperand' = FALSE
  /\ UNCHANGED <<memoryEntries, memoryExpanded>>

\* handleBackspace with a slip: a lone minus sign stays in the entry
handleBackspaceKeepingSign ==
  LET next == SubSeq(displayValue, 1, Len(displayValue) - 1)
  IN /\ displayValue' =
          IF ~isNumericEntry(displayValue) THEN <<"0">>
          ELSE IF Len(displayValue) <= 1 THEN <<"0">>
          ELSE next
     /\ UNCHANGED <<waitingForOperand, storedValue, pendingOperator,
                    memoryEntries, memoryExpanded>>

handleBackspace ==
  LET next == SubSeq(displayValue, 1, Len(displayValue) - 1)
  IN /\ displayValue' =
          IF ~isNumericEntry(displayValue) THEN <<"0">>
          ELSE IF Len(displayValue) <= 1 THEN <<"0">>
          ELSE IF next = <<"-">> \/ next = <<>> THEN <<"0">>
          ELSE next
     /\ UNCHANGED <<waitingForOperand, storedValue, pendingOperator,
                    memoryEntries, memoryExpanded>>

\* handleMemoryAction with a slip: M+ keeps the head only
handleMemoryActionDroppingTail(action) ==
  \E numericDisplay \in {OrZero(parseDisplayValue(displayValue))} :
    CASE action = "MC" ->
           /\ memoryEntries' = <<>>
           /\ memoryExpanded' = FALSE
           /\ UNCHANGED <<displayValue, storedValue, pendingOperator, waitingForOperand>>
      [] action = "MR" ->
           /\ IF Len(memoryEntries) > 0 THEN
                \E committed \in {commitValue(memoryEntries[1].value)} :
                  /\ displayValue' = committed.displayValue
                  /\ storedValue' = committed.storedValue
                  /\ pendingOperator' = committed.pendingOperator
                  /\ waitingForOperand' = TRUE
              ELSE
                UNCHANGED <<displayValue, storedValue, pendingOperator, waitingForOperand>>
           /\ UNCHANGED <<memoryEntries, memoryExpanded>>
      [] action = "M+" ->
           /\ IF Len(memoryEntries) = 0 THEN
                \E id \in Ids :
                  memoryEntries' = <<createMemoryEntry(numericDisplay, id)>>
              ELSE
                memoryEntries' =
                  <<[memoryEntries[1] EXCEPT
                       !.value = Add(memoryEntries[1].value, numericDisplay)]>>
           /\ UNCHANGED <<displayValue, storedValue, pendingOperator,
                          waitingForOperand, memoryExpanded>>
      [] action = "M-" ->
           /\ IF Len(memoryEntries) = 0 THEN
                \E id \in Ids :
                  memoryEntries' = <<createMemoryEntry(Neg(numericDisplay), id)>>
              ELSE
                memoryEntries' =
                  <<[memoryEntries[1] EXCEPT
                       !.value = Sub(memoryEntries[1].value, numericDisplay)]>>
                    \o Tail(memoryEntries)
           /\ UNCHANGED <<displayValue, storedValue, pendingOperator,
                          waitingForOperand, memoryExpanded>>
      [] action = "MS" ->
           /\ \E id \in Ids :
                memoryEntries' =
                  <<createMemoryEntry(numericDisplay, id)>> \o memoryEntries
           /\ UNCHANGED <<displayValue, storedValue, pendingOperator,
                          waitingForOperand, memoryExpanded>>
      [] action = "Mv" ->
           /\ memoryExpanded' = ~memoryExpanded
           /\ UNCHANGED <<displayValue, storedValue, pendingOperator,
                          waitingForOperand, memoryEntries>>

\* handleMemoryAction with a slip: M+ finds the entry to add to by its id
handleMemoryActionById(action) ==
  \E numericDisplay \in {OrZero(parseDisplayValue(displayValue))} :
    CASE action = "MC" ->
           /\ memoryEntries' = <<>>
           /\ memoryExpanded' = FALSE
           /\ UNCHANGED <<displayValue, storedValue, pendingOperator, waitingForOperand>>
      [] action = "MR" ->
           /\ IF Len(memoryEntries) > 0 THEN
                \E committed \in {commitValue(memoryEntries[1].value)} :
                  /\ displayValue' = committed.displayValue
                  /\ storedValue' = committed.storedValue
                  /\ pendingOperator' = committed.pendingOperator
                  /\ waitingForOperand' = TRUE
              ELSE
                UNCHANGED <<displayValue, storedValue, pendingOperator, waitingForOperand>>
           /\ UNCHANGED <<memoryEntries, memoryExpanded>>
      [] action = "M+" ->
           /\ IF Len(memoryEntries) = 0 THEN
                \E id \in Ids :
                  memoryEntries' = <<createMemoryEntry(numericDisplay, id)>>
              ELSE
                memoryEntries' =
                  [i \in 1..Len(memoryEntries) |->
                     IF memoryEntries[i].id = memoryEntries[1].id
                     THEN [memoryEntries[i] EXCEPT
                             !.value = Add(memoryEntries[i].value, numericDisplay)]
                     ELSE memoryEntries[i]]
           /\ UNCHANGED <<displayValue, storedValue, pendingOperator,
                          waitingForOperand, memoryExpanded>>
      [] action = "M-" ->
           /\ IF Len(memoryEntries) = 0 THEN
                \E id \in Ids :
                  memoryEntries' = <<createMemoryEntry(Neg(numericDisplay), id)>>
              ELSE
                memoryEntries' =
                  <<[memoryEntries[1] EXCEPT
                       !.value = Sub(memoryEntries[1].value, numericDisplay)]>>
                    \o Tail(memoryEntries)
           /\ UNCHANGED <<displayValue, storedValue, pendingOperator,
                          waitingForOperand, memoryExpanded>>
      [] action = "MS" ->
           /\ \E id \in Ids :
                memoryEntries' =
                  <<createMemoryEntry(numericDisplay, id)>> \o memoryEntries
           /\ UNCHANGED <<displayValue, storedValue, pendingOperator,
                          waitingForOperand, memoryExpanded>>
      [] action = "Mv" ->
           /\ memoryExpanded' = ~memoryExpanded
           /\ UNCHANGED <<displayValue, storedValue, pendingOperator,
                          waitingForOperand, memoryEntries>>

handleMemoryAction(action) ==
  \E numericDisplay \in {OrZero(parseDisplayValue(displayValue))} :
    CASE action = "MC" ->
           /\ memoryEntries' = <<>>
           /\ memoryExpanded' = FALSE
           /\ UNCHANGED <<displayValue, storedValue, pendingOperator, waitingForOperand>>
      [] action = "MR" ->
           /\ IF Len(memoryEntries) > 0 THEN
                \E committed \in {commitValue(memoryEntries[1].value)} :
                  /\ displayValue' = committed.displayValue
                  /\ storedValue' = committed.storedValue
                  /\ pendingOperator' = committed.pendingOperator
                  /\ waitingForOperand' = TRUE
              ELSE
                UNCHANGED <<displayValue, storedValue, pendingOperator, waitingForOperand>>
           /\ UNCHANGED <<memoryEntries, memoryExpanded>>
      [] action = "M+" ->
           /\ IF Len(memoryEntries) = 0 THEN
                \E id \in Ids :
                  memoryEntries' = <<createMemoryEntry(numericDisplay, id)>>
              ELSE
                memoryEntries' =
                  <<[memoryEntries[1] EXCEPT
                       !.value = Add(memoryEntries[1].value, numericDisplay)]>>
                    \o Tail(memoryEntries)
           /\ UNCHANGED <<displayValue, storedValue, pendingOperator,
                          waitingForOperand, memoryExpanded>>
      [] action = "M-" ->
           /\ IF Len(memoryEntries) = 0 THEN
                \E id \in Ids :
                  memoryEntries' = <<createMemoryEntry(Neg(numericDisplay), id)>>
              ELSE
                memoryEntries' =
                  <<[memoryEntries[1] EXCEPT
                       !.value = Sub(memoryEntries[1].value, numericDisplay)]>>
                    \o Tail(memoryEntries)
           /\ UNCHANGED <<displayValue, storedValue, pendingOperator,
                          waitingForOperand, memoryExpanded>>
      [] action = "MS" ->
           /\ \E id \in Ids :
                memoryEntries' =
                  <<createMemoryEntry(numericDisplay, id)>> \o memoryEntries
           /\ UNCHANGED <<displayValue, storedValue, pendingOperator,
                          waitingForOperand, memoryExpanded>>
      [] action = "Mv" ->
           /\ memoryExpanded' = ~memoryExpanded
           /\ UNCHANGED <<displayValue, storedValue, pendingOperator,
                          waitingForOperand, memoryEntries>>

\* Number(sanitizedInteger).toLocaleString('en-US') of the text before the
\* point, a minus sign kept before a zero
GroupedInteger(integerPart) ==
  With(StripCommas(integerPart), LAMBDA sanitizedInteger :
    (IF Len(DropSign(sanitizedInteger)) < Len(sanitizedInteger)
     THEN <<"-">> ELSE <<>>)
      \o Group(DigitsOf(IntOf(DropSign(sanitizedInteger)))))

\* the text on the screen
formattedDisplay ==
  IF displayValue = DivideByZeroText \/ displayValue = InvalidInputText
  THEN displayValue
  ELSE With(parseDisplayValue(displayValue), LAMBDA numericValue :
    IF ~IsFinite(numericValue) THEN displayValue
    ELSE IF IsBig(numericValue) \/ numericValue[2] = 1
      THEN formatNumber(numericValue)
    ELSE GroupedInteger(SubSeq(displayValue, 1, DotAt(displayValue) - 1))
           \o <<".">>
           \o SubSeq(displayValue, DotAt(displayValue) + 1, Len(displayValue)))

----------------------------------------------------------------------------
(* handleButtonPress: one button per step *)

Pressed(button) ==
  CASE script = FreeRun -> button \in FreeButtons
    [] script = MemoryRun -> button \in MemoryButtons
    [] OTHER -> pc < Len(script) /\ script[pc + 1] = button

Do(button, Handler) ==
  /\ Pressed(button)
  /\ Handler
  /\ pc' = IF script \in {FreeRun, MemoryRun} THEN pc ELSE pc + 1
  /\ script' = script
  /\ Bounded'

Next ==
  \/ \E digit \in Digits : Do(digit, handleDigitPress(digit))
  \/ Do(".", handleDecimalPress)
  \/ \E operator \in Operators : Do(operator, handleOperatorPress(operator))
  \/ Do("=", handleEqualsPress)
  \/ Do("%", handlePercent)
  \/ \E command \in UnaryCommands : Do(command, handleUnaryCommand(command))
  \/ Do("CE", handleClearEntry)
  \/ Do("C", handleClearAll)
  \/ Do("BS", handleBackspace)
  \/ \E action \in MemoryActions : Do(action, handleMemoryAction(action))

Spec == Init /\ [][Next]_vars

----------------------------------------------------------------------------
(* The properties *)

\* -?\d+(\.\d*)? : a minus sign or none, digits, and a point or none with the
\* digits after it, if any
IsNumeral(text) ==
  \E u \in {DropSign(text)} :
    IF DotCount(u) = 0 THEN Len(u) > 0 /\ AllDigits(u)
    ELSE /\ DotCount(u) = 1
         /\ DotAt(u) > 1
         /\ AllDigits(SubSeq(u, 1, DotAt(u) - 1))
         /\ AllDigits(SubSeq(u, DotAt(u) + 1, Len(u)))

\* a numeral whose integer part may hold grouping commas
IsGroupedNumeral(text) ==
  /\ IsNumeral(StripCommas(text))
  /\ Contains(text, ".") =>
       ~Contains(SubSeq(text, DotAt(text) + 1, Len(text)), ",")

\* -?\d\.\d+e-?\d+ : what toExponential(6) without the plus sign of its
\* exponent, and toString below 1e-6, leave in the entry
IsExponentNotation(text) ==
  \E u \in {DropSign(text)} :
    /\ Contains(u, "e")
    /\ \E at \in {CHOOSE i \in 1..Len(u) : u[i] = "e"} :
         /\ at > 3
         /\ u[1] \in Digits
         /\ u[2] = "."
         /\ AllDigits(SubSeq(u, 3, at - 1))
         /\ \E exponent \in {DropSign(SubSeq(u, at + 1, Len(u)))} :
              Len(exponent) > 0 /\ AllDigits(exponent)

ChainAbsent == storedValue = Null /\ pendingOperator = NoOperator

\* the state script leaves after its first k buttons
After(buttons, k) == script = buttons /\ pc = k

\* C1: with waitingForOperand false and a point in displayValue, Decimal leaves
\* displayValue as it is; from a fresh screen 1 . . 2 leaves "1.2"
DecimalIdempotent ==
  [][ /\ (/\ ~waitingForOperand
          /\ Contains(displayValue, ".")
          /\ Do(".", handleDecimalPress))
         => displayValue' = displayValue
      /\ After(ScriptDecimalTwice, 4)' => displayValue' = <<"1", ".", "2">>
    ]_vars

\* C2: with waitingForOperand false and displayValue a numeral other than "0"
\* (one ending in a point included), a digit is appended to displayValue; from a
\* fresh screen 1 . 5 leaves "1.5"
DigitAppendsMidEntry ==
  [][ /\ \A digit \in Digits :
           (/\ ~waitingForOperand
            /\ IsNumeral(displayValue)
            /\ displayValue # <<"0">>
            /\ Do(digit, handleDigitPress(digit)))
           => displayValue' = Append(displayValue, digit)
      /\ After(ScriptDecimalDigit, 3)' => displayValue' = <<"1", ".", "5">>
    ]_vars

\* C3: from a fresh screen 2 + 3 = shows "5" and a second = shows "8"
RepeatedEqualsReapplies ==
  /\ After(ScriptRepeatEquals, 4) => displayValue = <<"5">>
  /\ After(ScriptRepeatEquals, 5) => displayValue = <<"8">>

\* C4: from a fresh screen 0 . 1 + 0 . 2 = shows "0.3"
TenthsAddExactly ==
  After(ScriptTenths, 8) => displayValue = <<"0", ".", "3">>

ArithmeticPressed ==
  \/ \E operator \in Operators : Do(operator, handleOperatorPress(operator))
  \/ Do("=", handleEqualsPress)
  \/ Do("%", handlePercent)
  \/ \E command \in UnaryCommands : Do(command, handleUnaryCommand(command))

\* C5: with an error text in displayValue, an operator, Equals, Percent and the
\* unary commands leave displayValue, waitingForOperand, storedValue and
\* pendingOperator as they are; 5 / 0 = shows the division error and the + after
\* it changes nothing
ErrorBlocksArithmetic ==
  [][ /\ (IsErrorText(displayValue) /\ ArithmeticPressed) => UNCHANGED session
      /\ After(ScriptDivideByZero, 4)' => displayValue' = DivideByZeroText
      /\ (After(ScriptDivideByZero, 4) /\ pc' = 5) => UNCHANGED session
    ]_vars

\* the + after 5 / 0 = has been pressed
ErrorBlockedReached ==
  /\ After(ScriptDivideByZero, 5)
  /\ displayValue = DivideByZeroText
  /\ ChainAbsent

\* C6: with an error text in displayValue, a digit leaves that digit and
\* waitingForOperand false, Decimal leaves "0." and waitingForOperand false,
\* ClearEntry leaves "0", ClearAll leaves the initial session; after each of
\* them storedValue and pendingOperator are absent
RecoveryLeavesNoChain ==
  [][ IsErrorText(displayValue) =>
        /\ \A digit \in Digits :
             Do(digit, handleDigitPress(digit))
             => displayValue' = <<digit>> /\ ~waitingForOperand' /\ ChainAbsent'
        /\ Do(".", handleDecimalPress)
           => displayValue' = <<"0", ".">> /\ ~waitingForOperand' /\ ChainAbsent'
        /\ Do("CE", handleClearEntry)
           => displayValue' = <<"0">> /\ ChainAbsent'
        /\ Do("C", handleClearAll)
           => session' = <<(<<"0">>), FALSE, NoOperator, Null>>
    ]_vars

\* C7: storedValue and pendingOperator are both present or both absent
StoredAndPendingTogether ==
  (storedValue = Null) <=> (pendingOperator = NoOperator)

\* an operator chain is pending while the memory holds an entry
ChainBesideMemoryReached ==
  /\ script = MemoryRun
  /\ storedValue # Null
  /\ pendingOperator # NoOperator
  /\ Len(memoryEntries) > 0

\* C8: displayValue is an error text or a minus sign or none, digits, and a
\* point or none with the digits after it: no grouping comma, no exponent
EntryIsPlainNumeral ==
  IsErrorText(displayValue) \/ IsNumeral(displayValue)

\* C8, amended: displayValue is an error text, or a numeral whose integer part
\* may hold grouping commas, or a number in exponential notation
EntryIsNumeral ==
  \/ IsErrorText(displayValue)
  \/ IsGroupedNumeral(displayValue)
  \/ IsExponentNotation(displayValue)

\* 500 * 2 = has left a grouped result
GroupedEntryReached ==
  After(ScriptThousand, 6) /\ displayValue = <<"1", ",", "0", "0", "0">>

PercentageOf(currentValue) ==
  IF storedValue # Null /\ pendingOperator # NoOperator
  THEN Div(Mul(storedValue, currentValue), Whole(100))
  ELSE Div(currentValue, Whole(100))

\* C10: Percent on a finite number commits the percentage, sets
\* waitingForOperand, and leaves storedValue and pendingOperator as they are;
\* 200 + 10 % shows "20" and = after it "220"
PercentKeepsChain ==
  [][ /\ \A currentValue \in {parseDisplayValue(displayValue)} :
           (IsFinite(currentValue) /\ Do("%", handlePercent))
           => /\ displayValue' = commitValue(PercentageOf(currentValue)).displayValue
              /\ waitingForOperand'
              /\ UNCHANGED <<storedValue, pendingOperator>>
      /\ After(ScriptPercent, 7)' => displayValue' = <<"2", "0">>
      /\ After(ScriptPercent, 8)' => displayValue' = <<"2", "2", "0">>
    ]_vars

\* C10, amended: Percent on a finite number commits the percentage and sets
\* waitingForOperand; it leaves storedValue and pendingOperator as they are
\* when the percentage is finite and clears both when it is not; 200 + 10 %
\* shows "20" and = after it "220"
PercentCommits ==
  [][ /\ \A currentValue \in {parseDisplayValue(displayValue)} :
           (IsFinite(currentValue) /\ Do("%", handlePercent))
           => /\ displayValue' = commitValue(PercentageOf(currentValue)).displayValue
              /\ waitingForOperand'
              /\ IF IsFinite(PercentageOf(currentValue))
                 THEN UNCHANGED <<storedValue, pendingOperator>>
                 ELSE ChainAbsent'
      /\ After(ScriptPercent, 7)' => displayValue' = <<"2", "0">>
      /\ After(ScriptPercent, 8)' => displayValue' = <<"2", "2", "0">>
    ]_vars

\* 200 + 10 % = has been pressed
PercentOfStoredReached ==
  /\ After(ScriptPercent, 8)
  /\ displayValue = <<"2", "2", "0">>
  /\ storedValue = Whole(220)

\* the digits pressed, without the zeros they begin with; "0" when nothing
\* else is left
RECURSIVE SuppressZeros(_)
SuppressZeros(run) ==
  IF Len(run) = 0 THEN <<"0">>
  ELSE IF run[1] = "0" THEN SuppressZeros(Tail(run))
  ELSE run

\* C11: after any run of digit buttons from a fresh screen displayValue is the
\* digits pressed with the leading "0" suppressed (0 5 gives "5"), and
\* waitingForOperand, storedValue and pendingOperator are as at the start
DigitsConcatenate ==
  script \in DigitScripts =>
    /\ displayValue = SuppressZeros(SubSeq(script, 1, pc))
    /\ ~waitingForOperand
    /\ ChainAbsent

\* 0 5 has been pressed
ZeroFiveReached ==
  After(<<"0", "5">>, 2) /\ displayValue = <<"5">>

\* C12: the square root of a negative number leaves "Invalid input" and clears
\* storedValue, pendingOperator and waitingForOperand, whatever chain was
\* active; 4 +/- sqrt shows "Invalid input"
NegativeRootIsInvalid ==
  [][ /\ \A currentValue \in {parseDisplayValue(displayValue)} :
           (/\ IsFinite(currentValue)
            /\ Less(currentValue, Zero)
            /\ Do("sqrt", handleUnaryCommand("sqrt")))
           => /\ displayValue' = InvalidInputText
              /\ ChainAbsent'
              /\ ~waitingForOperand'
      /\ After(ScriptNegativeRoot, 3)' => displayValue' = InvalidInputText
    ]_vars

\* 2 + 4 +/- sqrt has been pressed: the chain 2 + is gone
NegativeRootInChainReached ==
  /\ After(ScriptNegativeRootInChain, 5)
  /\ displayValue = InvalidInputText
  /\ ChainAbsent
  /\ ~waitingForOperand

\* the current value of the memory actions: the number in displayValue, 0 when
\* it is none
CurrentValue == OrZero(parseDisplayValue(displayValue))

\* C13: M+ and M- on an empty memory create one entry, of the current value
\* (M+) or its negation (M-); on a memory with entries they add the current
\* value to (M+) or subtract it from (M-) the value of the head and keep the
\* head's id, the length and every other entry
MemoryAddActsOnHead ==
  [][ \A action \in {"M+", "M-"} :
        Do(action, handleMemoryAction(action)) =>
          IF Len(memoryEntries) = 0 THEN
            /\ Len(memoryEntries') = 1
            /\ memoryEntries'[1].value =
                 (IF action = "M+" THEN CurrentValue ELSE Neg(CurrentValue))
          ELSE
            /\ Len(memoryEntries') = Len(memoryEntries)
            /\ memoryEntries'[1].id = memoryEntries[1].id
            /\ memoryEntries'[1].value =
                 (IF action = "M+" THEN Add(memoryEntries[1].value, CurrentValue)
                  ELSE Sub(memoryEntries[1].value, CurrentValue))
            /\ Tail(memoryEntries') = Tail(memoryEntries)
    ]_vars

\* 1 MS CE 2 MS CE 5 M+ has been pressed: the head holds 2 + 5, the entry
\* behind it 1
AddedToHeadReached ==
  /\ After(ScriptMemoryBank, 8)
  /\ Len(memoryEntries) = 2
  /\ memoryEntries[1].value = Whole(7)
  /\ memoryEntries[2].value = Whole(1)

\* the button pressed last was MR and the one before it MS
StoreThenRecallPressed ==
  /\ script \notin {FreeRun, MemoryRun}
  /\ pc >= 2
  /\ script[pc - 1] = "MS"
  /\ script[pc] = "MR"

\* C14: MS makes the memory one entry longer by putting a new head of the
\* current value before the entries it held, which stay as they are; MR right
\* after MS shows the value stored
StorePrependsRecallTarget ==
  [][ /\ Do("MS", handleMemoryAction("MS")) =>
           /\ Len(memoryEntries') = Len(memoryEntries) + 1
           /\ memoryEntries'[1].value = CurrentValue
           /\ Tail(memoryEntries') = memoryEntries
      /\ StoreThenRecallPressed' =>
           parseDisplayValue(displayValue') = memoryEntries'[1].value
    ]_vars

\* the buttons pressed last were C 2 + MR =
RecallAddedPressed ==
  /\ script \notin {FreeRun, MemoryRun}
  /\ pc >= 5
  /\ SubSeq(script, pc - 4, pc) = <<"C", "2", "+", "MR", "=">>

\* C15: MR on an empty memory leaves the session as it is; on a memory with
\* entries it commits the value of the head, sets waitingForOperand, leaves the
\* memory as it is and, the head being finite, storedValue and pendingOperator
\* too; 2 + MR = shows 2 plus the head
RecallCommitsHead ==
  [][ /\ Do("MR", handleMemoryAction("MR")) =>
           IF Len(memoryEntries) = 0 THEN UNCHANGED session
           ELSE
             /\ displayValue' = commitValue(memoryEntries[1].value).displayValue
             /\ waitingForOperand'
             /\ UNCHANGED memoryEntries
             /\ IsFinite(memoryEntries[1].value) =>
                  UNCHANGED <<storedValue, pendingOperator>>
      /\ (RecallAddedPressed' /\ Len(memoryEntries') > 0) =>
           parseDisplayValue(displayValue') = Add(Whole(2), memoryEntries'[1].value)
    ]_vars

\* C16: MC empties the memory and collapses its view; every other button
\* leaves the memory as long as it was or one entry longer, and the entries
\* behind the head keep their values
MemoryKeepsEntries ==
  [][ IF Do("MC", handleMemoryAction("MC"))
      THEN memoryEntries' = <<>> /\ ~memoryExpanded'
      ELSE
        /\ Len(memoryEntries') \in {Len(memoryEntries), Len(memoryEntries) + 1}
        /\ Len(memoryEntries') = Len(memoryEntries) =>
             \A i \in 2..Len(memoryEntries) : memoryEntries'[i] = memoryEntries[i]
        /\ Len(memoryEntries') = Len(memoryEntries) + 1 =>
             Tail(memoryEntries') = memoryEntries
    ]_vars

NonHeadKeptReached ==
  /\ After(ScriptMemoryBank, 10)
  /\ Len(memoryEntries) = 2
  /\ memoryEntries[1].value = Whole(-3)
  /\ memoryEntries[2].value = Whole(1)

\* C17: CE sets the display to "0" and waitingForOperand, and leaves
\* storedValue and pendingOperator as they are; 2 + 3 CE 4 = shows "6"
ClearEntryKeepsChain ==
  [][ /\ Do("CE", handleClearEntry) =>
           /\ displayValue' = <<"0">>
           /\ waitingForOperand'
           /\ UNCHANGED <<storedValue, pendingOperator>>
      /\ After(ScriptClearEntry, 6)' => displayValue' = <<"6">>
    ]_vars

ClearedEntryReplacedReached ==
  /\ After(ScriptClearEntry, 5)
  /\ displayValue = <<"4">>
  /\ storedValue = Whole(2)
  /\ pendingOperator = "+"

\* C18: in every state C gives the session of Init: display "0", no
\* storedValue, no pendingOperator, waitingForOperand false
ClearAllGivesInit ==
  [][ Do("C", handleClearAll) =>
        /\ displayValue' = <<"0">>
        /\ storedValue' = Null
        /\ pendingOperator' = NoOperator
        /\ ~waitingForOperand'
    ]_vars

ChainClearedReached ==
  /\ After(ScriptClearAll, 4)
  /\ displayValue = <<"0">>
  /\ ChainAbsent
  /\ ~waitingForOperand

\* a numeric entry, or one with a "." typed last
IsEntryInProgress(s) ==
  \/ isNumericEntry(s)
  \/ /\ Len(s) > 1
     /\ s[Len(s)] = "."
     /\ isNumericEntry(SubSeq(s, 1, Len(s) - 1))

\* C19: BS on an error text gives "0"; on a numeric entry, one ending in "."
\* included, it drops the last character, and gives "0" when the entry had
\* one character or nothing or "-" is left; "12." becomes "12", "-5" "0"
BackspaceDropsLast ==
  [][ /\ Do("BS", handleBackspace) =>
           \A next \in {SubSeq(displayValue, 1, Len(displayValue) - 1)} :
             /\ IsErrorText(displayValue) => displayValue' = <<"0">>
             /\ IsEntryInProgress(displayValue) =>
                  displayValue' =
                    IF Len(displayValue) <= 1 \/ next = <<>> \/ next = <<"-">>
                    THEN <<"0">> ELSE next
      /\ After(ScriptBackspaceDot, 4)' => displayValue' = <<"1", "2">>
      /\ After(ScriptBackspaceSign, 3)' => displayValue' = <<"0">>
    ]_vars

\* C20: the screen shows an error text as it is, and an entry with a point
\* with the digits before the point grouped and the point and what follows
\* it as typed; the entry "1234." is shown as "1,234."
ScreenKeepsTypedPoint ==
  /\ IsErrorText(displayValue) => formattedDisplay = displayValue
  /\ (IsEntryInProgress(displayValue) /\ DotCount(displayValue) = 1) =>
       formattedDisplay =
         GroupedInteger(SubSeq(displayValue, 1, DotAt(displayValue) - 1))
           \o SubSeq(displayValue, DotAt(displayValue), Len(displayValue))
  /\ After(ScriptTypedPoint, 5) =>
       formattedDisplay = <<"1", ",", "2", "3", "4", ".">>

\* the values of the memory, without the ids
Values(entries) == [i \in 1..Len(entries) |-> entries[i].value]

\* the display, waitingForOperand and the memory values after each button of
\* ScriptMemoryBank
MemoryBankReplay ==
  << <<<<"0">>, FALSE, <<>>>>,
     <<<<"1">>, FALSE, <<>>>>,
     <<<<"1">>, FALSE, <<Whole(1)>>>>,
     <<<<"0">>, TRUE, <<Whole(1)>>>>,
     <<<<"2">>, FALSE, <<Whole(1)>>>>,
     <<<<"2">>, FALSE, <<Whole(2), Whole(1)>>>>,
     <<<<"0">>, TRUE, <<Whole(2), Whole(1)>>>>,
     <<<<"5">>, FALSE, <<Whole(2), Whole(1)>>>>,
     <<<<"5">>, FALSE, <<Whole(7), Whole(1)>>>>,
     <<<<"5">>, FALSE, <<Whole(2), Whole(1)>>>>,
     <<<<"5">>, FALSE, <<Whole(-3), Whole(1)>>>>,
     <<<<"-", "3">>, TRUE, <<Whole(-3), Whole(1)>>>>,
     <<<<"1">>, FALSE, <<Whole(-3), Whole(1)>>>>,
     <<<<"1">>, FALSE, <<>>>> >>

\* C21: a button sequence replayed from Init ends in one session, one
\* display and one sequence of memory values, whatever ids the memory
\* entries were given
ReplayIsDeterministic ==
  script = ScriptMemoryBank =>
    /\ <<displayValue, waitingForOperand, Values(memoryEntries)>>
         = MemoryBankReplay[pc + 1]
    /\ formattedDisplay = displayValue
    /\ ChainAbsent
    /\ ~memoryExpanded

ReplayWithOtherIdsReached ==
  /\ After(ScriptMemoryBank, 11)
  /\ memoryEntries[1].id # memoryEntries[2].id
  /\ displayValue = <<"-", "3">>

\* storedValue !== null && pendingOperator !== null
ChainActive == storedValue # Null /\ pendingOperator # NoOperator

\* the divide-by-zero error state
DivideByZeroState ==
  /\ displayValue = DivideByZeroText
  /\ storedValue = Null
  /\ pendingOperator = NoOperator

\* left operator right is no finite number
NonFinite(operator, left, right) ==
  \/ operator = "/" /\ right = Zero
  \/ ~IsFinite(performOperation(operator, left, right))

\* C22: a button whose result is no finite number leaves the divide-by-zero
\* state: = and an operator pressed after a right operand, a division by 0
\* (whatever storedValue is) or an overflow pending, 1/x of 0, and x^2 and %
\* of an overflowing value; the operator pressed is not left pending
NonFiniteResultIsError ==
  [][ \A currentValue \in {parseDisplayValue(displayValue)} :
        IsFinite(currentValue) =>
          /\ ( /\ ChainActive
               /\ NonFinite(pendingOperator, storedValue, currentValue)
               /\ Do("=", handleEqualsPress) ) => DivideByZeroState'
          /\ \A operator \in Operators :
               ( /\ ChainActive
                 /\ ~waitingForOperand
                 /\ NonFinite(pendingOperator, storedValue, currentValue)
                 /\ Do(operator, handleOperatorPress(operator)) ) => DivideByZeroState'
          /\ ( /\ currentValue = Zero
               /\ Do("1/x", handleUnaryCommand("1/x")) ) => DivideByZeroState'
          /\ ( /\ ~IsFinite(Mul(currentValue, currentValue))
               /\ Do("x^2", handleUnaryCommand("x^2")) ) => DivideByZeroState'
          /\ ( /\ ~IsFinite(PercentageOf(currentValue))
               /\ Do("%", handlePercent) ) => DivideByZeroState'
    ]_vars

ChainedDivisionByZeroReached ==
  /\ After(ScriptDivideByZeroChained, 5)
  /\ DivideByZeroState
  /\ ~waitingForOperand

\* C23 as the specification words it: an operator pressed on a finite number
\* stores the number and leaves the display when no chain is active, stores
\* and shows pendingOperator(storedValue, number) when a chain is active and
\* waitingForOperand is false, and in both cases ends with the operator
\* pending and waitingForOperand true; 2 + 3 * 4 = shows "20"
OperatorSeedsOrFolds ==
  [][ /\ \A operator \in Operators :
           \A currentValue \in {parseDisplayValue(displayValue)} :
             (IsFinite(currentValue) /\ Do(operator, handleOperatorPress(operator))) =>
               /\ ~ChainActive =>
                    /\ storedValue' = currentValue
                    /\ displayValue' = displayValue
                    /\ pendingOperator' = operator
                    /\ waitingForOperand'
               /\ (ChainActive /\ ~waitingForOperand) =>
                    \A computed \in {performOperation(pendingOperator, storedValue,
                                                      currentValue)} :
                      /\ storedValue' = computed
                      /\ displayValue' = formatNumber(computed)
                      /\ pendingOperator' = operator
                      /\ waitingForOperand'
      /\ After(ScriptLeftToRight, 6)' => displayValue' = <<"2", "0">>
    ]_vars

\* C23: the same, the chain being folded when the computed value is finite
OperatorSeedsOrFoldsFinite ==
  [][ /\ \A operator \in Operators :
           \A currentValue \in {parseDisplayValue(displayValue)} :
             (IsFinite(currentValue) /\ Do(operator, handleOperatorPress(operator))) =>
               /\ ~ChainActive =>
                    /\ storedValue' = currentValue
                    /\ displayValue' = displayValue
                    /\ pendingOperator' = operator
                    /\ waitingForOperand'
               /\ (ChainActive /\ ~waitingForOperand) =>
                    \A computed \in {performOperation(pendingOperator, storedValue,
                                                      currentValue)} :
                      IsFinite(computed) =>
                        /\ storedValue' = computed
                        /\ displayValue' = formatNumber(computed)
                        /\ pendingOperator' = operator
                        /\ waitingForOperand'
      /\ After(ScriptLeftToRight, 6)' => displayValue' = <<"2", "0">>
    ]_vars

FoldedLeftToRightReached ==
  /\ After(ScriptLeftToRight, 4)
  /\ displayValue = <<"5">>
  /\ storedValue = Whole(5)
  /\ pendingOperator = "*"
  /\ waitingForOperand

\* C24: = changes nothing of the session when storedValue or pendingOperator
\* is absent; on a finite number with a finite result it shows the result,
\* stores it, sets waitingForOperand and leaves pendingOperator as it is
EqualsCommitsResult ==
  [][ Do("=", handleEqualsPress) =>
        IF ~ChainActive THEN UNCHANGED session
        ELSE
          \A currentValue \in {parseDisplayValue(displayValue)} :
            IsFinite(currentValue) =>
              \A result \in {performOperation(pendingOperator, storedValue,
                                              currentValue)} :
                IsFinite(result) =>
                  /\ parseDisplayValue(displayValue') = result
                  /\ storedValue' = result
                  /\ waitingForOperand'
                  /\ pendingOperator' = pendingOperator
    ]_vars

\* C25: the finite result an operator pressed in a chain shows is committed
\* like every other result, rounded to RoundPlaces decimals: the display is
\* the text = shows for the same storedValue, pendingOperator and number
ChainShowsCommittedResult ==
  [][ \A operator \in Operators :
        \A currentValue \in {parseDisplayValue(displayValue)} :
          ( /\ IsFinite(currentValue)
            /\ ChainActive
            /\ ~waitingForOperand
            /\ Do(operator, handleOperatorPress(operator)) ) =>
            \A computed \in {performOperation(pendingOperator, storedValue,
                                              currentValue)} :
              IsFinite(computed) =>
                displayValue' = commitValue(computed).displayValue
    ]_vars

\* C26: with an error text on display MS prepends an entry of value 0, M+ and
\* M- make an entry of value 0 of an empty memory and leave the head of any
\* other memory as it is, and none of them changes the session
MemoryTakesErrorAsZero ==
  [][ \A action \in {"M+", "M-", "MS"} :
        (IsErrorText(displayValue) /\ Do(action, handleMemoryAction(action))) =>
          /\ UNCHANGED session
          /\ Values(memoryEntries') =
               IF action = "MS" \/ Len(memoryEntries) = 0
               THEN <<Zero>> \o Values(memoryEntries)
               ELSE Values(memoryEntries)
    ]_vars

ZerosStoredInErrorReached ==
  /\ After(ScriptMemoryInError, 7)
  /\ displayValue = DivideByZeroText
  /\ Values(memoryEntries) = <<Zero, Zero>>

\* a calculator button is pressed
CalculatorStep ==
  \/ \E digit \in Digits : Do(digit, handleDigitPress(digit))
  \/ Do(".", handleDecimalPress)
  \/ \E operator \in Operators : Do(operator, handleOperatorPress(operator))
  \/ Do("=", handleEqualsPress)
  \/ Do("%", handlePercent)
  \/ \E command \in UnaryCommands : Do(command, handleUnaryCommand(command))
  \/ Do("CE", handleClearEntry)
  \/ Do("C", handleClearAll)
  \/ Do("BS", handleBackspace)

\* C27: a calculator button leaves memoryEntries and memoryExpanded as they
\* are; M+, M-, MS, MC and Mv leave the session as it is, and Mv changes
\* memoryExpanded only
SessionAndMemoryFramedApart ==
  [][ /\ CalculatorStep => UNCHANGED memory
      /\ \A action \in {"M+", "M-", "MS", "MC", "Mv"} :
           Do(action, handleMemoryAction(action)) => UNCHANGED session
      /\ Do("Mv", handleMemoryAction("Mv")) =>
           /\ UNCHANGED memoryEntries
           /\ memoryExpanded' = ~memoryExpanded
    ]_vars

ChainBesideStoredEntryReached ==
  /\ After(ScriptRecallAdds, 5)
  /\ Values(memoryEntries) = <<Whole(5)>>
  /\ storedValue = Whole(2)
  /\ pendingOperator = "+"

\* C28: while an error text is on display storedValue and pendingOperator
\* are both absent
ErrorHasNoChain ==
  IsErrorText(displayValue) => (storedValue = Null /\ pendingOperator = NoOperator)

\* the value command makes of currentValue
UnaryResult(command, currentValue) ==
  CASE command = "+/-" -> Neg(currentValue)
    [] command = "1/x" ->
         IF currentValue = Zero THEN Infinity ELSE Div(Whole(1), currentValue)
    [] command = "x^2" -> Mul(currentValue, currentValue)
    [] command = "sqrt" ->
         IF Less(currentValue, Zero) THEN NaN ELSE Sqrt(currentValue)

\* a unary command with a finite result leaves waitingForOperand, storedValue
\* and pendingOperator as they are
UnaryChangesEntryOnly ==
  \A command \in UnaryCommands :
    \A currentValue \in {parseDisplayValue(displayValue)} :
      ( /\ Do(command, handleUnaryCommand(command))
        /\ IsFinite(currentValue)
        /\ IsFinite(UnaryResult(command, currentValue)) ) =>
        UNCHANGED <<waitingForOperand, storedValue, pendingOperator>>

\* the button pressed last in a replayed run was a unary command, and it left
\* a number
UnaryJustCommitted ==
  /\ script \notin {FreeRun, MemoryRun}
  /\ pc >= 1
  /\ script[pc] \in UnaryCommands
  /\ IsFinite(parseDisplayValue(displayValue))

\* C29 as the specification words it: a unary command with a finite result
\* changes displayValue only, so with waitingForOperand false a digit pressed
\* next is appended to the result; 5 +/- 3 leaves "-53"
DigitAppendsToUnaryResult ==
  [][ /\ UnaryChangesEntryOnly
      /\ \A digit \in Digits :
           ( /\ UnaryJustCommitted
             /\ ~waitingForOperand
             /\ Do(digit, handleDigitPress(digit)) ) =>
             displayValue' =
               IF displayValue = <<"0">> THEN <<digit>>
               ELSE Append(displayValue, digit)
      /\ After(ScriptNegateDigit, 3)' => displayValue' = <<"-", "5", "3">>
    ]_vars

\* C29: the same, the digit being appended to a result shown without an
\* exponent
DigitAppendsToPlainUnaryResult ==
  [][ /\ UnaryChangesEntryOnly
      /\ \A digit \in Digits :
           ( /\ UnaryJustCommitted
             /\ ~waitingForOperand
             /\ IsGroupedNumeral(displayValue)
             /\ Do(digit, handleDigitPress(digit)) ) =>
             displayValue' =
               IF displayValue = <<"0">> THEN <<digit>>
               ELSE Append(displayValue, digit)
      /\ After(ScriptNegateDigit, 3)' => displayValue' = <<"-", "5", "3">>
    ]_vars

DigitAfterNegateReached ==
  /\ After(ScriptNegateDigit, 3)
  /\ displayValue = <<"-", "5", "3">>
  /\ ~waitingForOperand
  /\ ChainAbsent

\* C30: = with a finite result keeps pendingOperator and stores the result,
\* so a number typed next is combined with the result under that operator:
\* 2 + 3 = 4 = shows "9", and 2 + 3 = 4 * shows "9" with * pending
ChainSurvivesEquals ==
  [][ /\ \A currentValue \in {parseDisplayValue(displayValue)} :
           (ChainActive /\ IsFinite(currentValue) /\ Do("=", handleEqualsPress)) =>
             \A result \in {performOperation(pendingOperator, storedValue,
                                             currentValue)} :
               IsFinite(result) =>
                 /\ pendingOperator' = pendingOperator
                 /\ storedValue' = result
      /\ After(ScriptEqualsThenEquals, 6)' => displayValue' = <<"9">>
      /\ After(ScriptEqualsThenOperator, 6)' =>
           displayValue' = <<"9">> /\ pendingOperator' = "*"
    ]_vars

ResultCombinedReached ==
  /\ After(ScriptEqualsThenOperator, 6)
  /\ displayValue = <<"9">>
  /\ storedValue = Whole(9)
  /\ pendingOperator = "*"

====
